---- MODULE Spec2Model ----
(***************************************************************************)
(* Model of anki_othello.py: main / process_one_game / analyze_game /      *)
(* run_edax / parse_hint_output / add_anki_card.                           *)
(*                                                                         *)
(* Python strings are sequences of one-character strings.  None is the     *)
(* empty tuple and a present optional value x is <<x>>.                    *)
(***************************************************************************)
EXTENDS Integers, Sequences, FiniteSets, TLC

\* ------------------------------------------------------------------ bounds
\* Largest number of .othello files the glob returns.
MaxFiles == 2
\* Short games have 0..MaxShort moves.
MaxShort == 2

\* ------------------------------------------------------- program constants
EVAL_SWING_THRESHOLD == 10
\* "if i >= 16: break"
PLY_LIMIT == 16

\* ---------------------------------------------------------- text helpers
None == <<>>
Some(x) == <<x>>

Digits == {"0", "1", "2", "3", "4", "5", "6", "7", "8", "9"}
Columns == {"A", "B", "C", "D", "E", "F", "G", "H"}
LowerColumns == {"a", "b", "c", "d", "e", "f", "g", "h"}
Rows18 == {"1", "2", "3", "4", "5", "6", "7", "8"}

\* str.upper() on one character (ASCII letters; every other character is kept).
UpperChar(c) ==
  CASE c = "a" -> "A" [] c = "b" -> "B" [] c = "c" -> "C" [] c = "d" -> "D"
    [] c = "e" -> "E" [] c = "f" -> "F" [] c = "g" -> "G" [] c = "h" -> "H"
    [] c = "i" -> "I" [] c = "j" -> "J" [] c = "k" -> "K" [] c = "l" -> "L"
    [] c = "m" -> "M" [] c = "n" -> "N" [] c = "o" -> "O" [] c = "p" -> "P"
    [] c = "q" -> "Q" [] c = "r" -> "R" [] c = "s" -> "S" [] c = "t" -> "T"
    [] c = "u" -> "U" [] c = "v" -> "V" [] c = "w" -> "W" [] c = "x" -> "X"
    [] c = "y" -> "Y" [] c = "z" -> "Z" [] OTHER -> c

\* str.upper()
Upper(s) == [j \in 1..Len(s) |-> UpperChar(s[j])]

\* sep.join(list)
RECURSIVE Join(_, _)
Join(list, sep) ==
  IF list = <<>> THEN <<>>
  ELSE IF Len(list) = 1 THEN list[1]
  ELSE list[1] \o sep \o Join(Tail(list), sep)

\* int() of a digit
DigitVal(c) ==
  CASE c = "0" -> 0 [] c = "1" -> 1 [] c = "2" -> 2 [] c = "3" -> 3 [] c = "4" -> 4
    [] c = "5" -> 5 [] c = "6" -> 6 [] c = "7" -> 7 [] c = "8" -> 8 [] c = "9" -> 9

RECURSIVE DigitsVal(_)
DigitsVal(ds) ==
  IF ds = <<>> THEN 0
  ELSE 10 * DigitsVal(SubSeq(ds, 1, Len(ds) - 1)) + DigitVal(ds[Len(ds)])

\* int(m.group(1)) for a text of the shape [+-]?\d+
IntOf(s) ==
  IF s[1] = "-" THEN 0 - DigitsVal(Tail(s))
  ELSE IF s[1] = "+" THEN DigitsVal(Tail(s))
  ELSE DigitsVal(s)

\* ------------------------------------------------------ parse_hint_output
\* A line of evaluator output is the sequence of its whitespace-separated words.

\* The word ends with \d+@\d+% (the .*? before it takes any leading text, the \s+
\* after it is the gap to the next word).
IsDepthMarker(w) ==
  /\ Len(w) >= 4
  /\ w[Len(w)] = "%"
  /\ \E a \in 2..(Len(w) - 2) :
       /\ w[a] = "@"
       /\ w[a - 1] \in Digits
       /\ \A j \in (a + 1)..(Len(w) - 1) : w[j] \in Digits

\* Length of the longest prefix of w of the shape [+-]?\d+ (0 when there is none).
RECURSIVE DigitRun(_, _)
DigitRun(w, from) ==
  IF from <= Len(w) /\ w[from] \in Digits THEN 1 + DigitRun(w, from + 1) ELSE 0

ScoreLen(w) ==
  IF w = <<>> THEN 0
  ELSE IF w[1] \in {"+", "-"}
       THEN (IF DigitRun(w, 2) = 0 THEN 0 ELSE 1 + DigitRun(w, 2))
       ELSE DigitRun(w, 1)

\* The word starts with [A-Ha-h][1-8] (it follows a \s in the pattern).
IsCoordStart(w) ==
  /\ Len(w) >= 2
  /\ w[1] \in (Columns \cup LowerColumns)
  /\ w[2] \in Rows18

\* The words after word k that start with a board coordinate and are not the score
\* word k+1 itself (the pattern asks for a \s between score and coordinate).
CoordsAfter(line, k) == {j \in (k + 2)..Len(line) : IsCoordStart(line[j])}

\* The words k the pattern can match from: word k is the depth marker, word k+1
\* starts with the score and a later word starts with a board coordinate.
MarkerWords(line) ==
  {k \in 1..(Len(line) - 2) :
     /\ IsDepthMarker(line[k])
     /\ ScoreLen(line[k + 1]) > 0
     /\ CoordsAfter(line, k) # {}}

Least(S) == CHOOSE x \in S : \A y \in S : x <= y

\* re.match(...) on one line: None, or <<[score text, move text]>> of the match the
\* two lazy .*? pick (the first marker that works, then the first coordinate).
MatchLine(line) ==
  LET found == MarkerWords(line)
  IN  IF found = {} THEN None
      ELSE LET k == Least(found)
               j == Least(CoordsAfter(line, k))
           IN  Some([group1 |-> SubSeq(line[k + 1], 1, ScoreLen(line[k + 1])),
                     group2 |-> SubSeq(line[j], 1, 2)])

\* parse_hint_output(output): the first matching line decides.  int() accepts every
\* text of the shape [+-]?\d+ of the lengths that occur here, so the "except
\* ValueError" branch is not taken and move and score are both present or both None.
RECURSIVE parse_hint_output(_)
parse_hint_output(output) ==
  IF output = <<>> THEN [best_move |-> None, score |-> None]
  ELSE LET m == MatchLine(output[1])
       IN  IF m # None
           THEN [best_move |-> Some(Upper(m[1].group2)),
                 score |-> Some(IntOf(m[1].group1))]
           ELSE parse_hint_output(Tail(output))


\* ------------------------------------------------------- evaluator outputs
wMarker == <<"2", "5", "@", "7", "3", "%">>
wPlus05 == <<"+", "0", "5">>
wMinus01 == <<"-", "0", "1">>
wTen == <<"1", "0">>
wOk == <<"o", "k">>
wd3 == <<"d", "3">>
wC4 == <<"C", "4">>
we6 == <<"e", "6">>

lNoise == <<wOk, wd3>>
lHint5 == <<wMarker, wPlus05, wOk, wd3, wC4>>
lHintM1 == <<wMarker, wMinus01, wC4>>
lHint10 == <<wOk, wMarker, wTen, we6>>

\* What the evaluator may print for one call: no hint line at all, or a hint line
\* among noise lines and further hint lines.
Outputs ==
  { <<lNoise>>,
    <<lNoise, lHint5, lHint10>>,
    <<lHintM1>>,
    <<lHint10, lNoise>> }

\* An evaluator: what it prints for every before-position and every after-position,
\* and what it prints instead for the before-position of one ply.
SpecialPlies == {1, 2}
Evaluators ==
  [before : Outputs, after : Outputs, ply : SpecialPlies, special : Outputs]

EdaxReply(e, ph, ply) ==
  IF ph = "before"
  THEN (IF ply = e.ply THEN e.special ELSE e.before)
  ELSE e.after

\* ------------------------------------------------------------ input files
\* A file's text is the sequence of its maximal runs of word characters: the two
\* \b of the pattern make a match exactly such a run.
MoveTokens == << <<"c", "4">>, <<"C", "3">>, <<"d", "3">>, <<"C", "5">>, <<"b", "4">> >>
JunkHead == << <<"x", "9">>, <<"C", "4", "5">> >>
JunkTail == << <<"A", "1", "b", "2">>, <<"H">> >>

GameText(n) ==
  JunkHead \o [j \in 1..n |-> MoveTokens[((j - 1) % Len(MoveTokens)) + 1]] \o JunkTail

\* Numbers of moves of the games: the short ones and one beyond the ply limit.
GameLengths == [j \in 1..(MaxShort + 2) |-> IF j <= MaxShort + 1 THEN j - 1 ELSE PLY_LIMIT + 1]

Batch(nf, start) ==
  [j \in 1..nf |-> GameText(GameLengths[((start + j - 2) % Len(GameLengths)) + 1])]

Batches == {Batch(nf, start) : nf \in 0..MaxFiles, start \in 1..Len(GameLengths)}

IsMove(w) == Len(w) = 2 /\ w[1] \in Columns /\ w[2] \in Rows18

\* re.findall(r"\b[A-H][1-8]\b", text.upper())
FindMoves(text) == SelectSeq([j \in 1..Len(text) |-> Upper(text[j])], IsMove)

\* --------------------------------------------------------------- run_edax
Level25 == <<"l", "e", "v", "e", "l", " ", "2", "5", "\n">>
Hint1 == <<"h", "i", "n", "t", " ", "1", "\n">>
PlayWord == <<"p", "l", "a", "y", " ">>

\* "level 25\n" + play_command + "hint 1\n"
Script(cmd) == Level25 \o cmd \o Hint1

\* ----------------------------------------------------------- analyze_game
seq_before(mv, ii) == SubSeq(mv, 1, ii)

\* Variant of seq_after_actual that leaves the played move out.
seq_after_actualM(mv, ii) == SubSeq(mv, 1, ii)
seq_after_actual(mv, ii)  == SubSeq(mv, 1, ii + 1)

play_cmd_before(mv, ii) ==
  IF seq_before(mv, ii) # <<>>
  THEN PlayWord \o Join(seq_before(mv, ii), <<" ">>) \o <<"\n">>
  ELSE <<>>

play_cmd_after(mv, ii) == PlayWord \o Join(seq_after_actual(mv, ii), <<" ">>) \o <<"\n">>

\* "if eval is None: eval = 0"
ScoreOrZero(s) == IF s = None THEN 0 ELSE s[1]

\* best_move or "-"
MoveOrDash(m) == IF m = None \/ m[1] = <<>> THEN <<"-">> ELSE m[1]

\* Variant of Delta that subtracts.
DeltaM(a, b) == a - b
Delta(a, b)  == a + b

\* Variant of FlipColor that keeps the color.
FlipColorM(c) == c
FlipColor(c)  == IF c = "B" THEN "W" ELSE "B"

\* Variant of IsBlunder with a strict comparison.
IsBlunderM(r) == r.delta > EVAL_SWING_THRESHOLD
IsBlunder(r)  == r.delta >= EVAL_SWING_THRESHOLD

\* ------------------------------------------------------- process_one_game
\* Variant of seq_before_list that includes the blundering move.
seq_before_listM(mv, idx) == SubSeq(mv, 1, idx)
seq_before_list(mv, idx)  == SubSeq(mv, 1, idx - 1)

\* Variant of NoRecommendation that lets the "-" placeholder through.
NoRecommendationM(cm) == cm = <<>>
NoRecommendation(cm)  == cm = <<>> \/ cm = <<"-">>

\* Variant of UnlinkCalls that unlinks only a file with blunders.
UnlinkCallsM(unl, f, bl) == IF bl = <<>> THEN unl ELSE unl \cup {f}
\* The files Path.unlink was called on once it is called on f; bl are the blunders
\* of f, which the call does not depend on.
UnlinkCalls(unl, f, bl)  == unl \cup {f}

\* ------------------------------------------------------------------ state
VARIABLES
  files,            \* main: othello_files, the texts of the files the glob found
  edax,             \* the evaluator behind ./lEdax-x86-64
  disk,             \* the files (indices into files) still on disk
  unlinked,         \* the files Path.unlink was called on
  k,                \* main: position of the for loop over othello_files
  pc,               \* where the program is
  exc,              \* the uncaught exception that ended the program
  moves,            \* process_one_game: moves
  i,                \* analyze_game: i
  phase,            \* analyze_game: which of the two run_edax calls of the ply
  color,            \* analyze_game: color
  rows,             \* analyze_game: rows
  blunders,         \* analyze_game: blunders
  best_move_before, \* analyze_game: best_move_before (before the "or '-'")
  eval_best_move,   \* analyze_game: eval_best_move
  play_command,     \* run_edax: play_command
  proc,             \* run_edax: the process of the latest Popen
  stdin,            \* the input proc.communicate was called with
  stdout,           \* run_edax: out
  ncalls,           \* number of run_edax calls of the current analyze_game
  bi,               \* process_one_game: position of the for loop over blunders
  cards             \* the add_anki_card calls made for the current file

vars ==
  <<files, edax, disk, unlinked, k, pc, exc, moves, i, phase, color, rows, blunders,
    best_move_before, eval_best_move, play_command, proc, stdin, stdout, ncalls, bi,
    cards>>

mainVars == <<files, edax>>
gameVars == <<moves, i, phase, color, rows, blunders, best_move_before, eval_best_move>>
edaxVars == <<play_command, proc, stdin, stdout, ncalls>>

Init ==
  /\ files \in Batches
  /\ edax \in Evaluators
  /\ disk = 1..Len(files)
  /\ unlinked = {}
  /\ k = 1
  /\ pc = "main"
  /\ exc = "none"
  /\ moves = <<>>
  /\ i = 0
  /\ phase = "before"
  /\ color = "B"
  /\ rows = <<>>
  /\ blunders = <<>>
  /\ best_move_before = None
  /\ eval_best_move = 0
  /\ play_command = <<>>
  /\ proc = "none"
  /\ stdin = <<>>
  /\ stdout = <<>>
  /\ ncalls = 0
  /\ bi = 1
  /\ cards = <<>>

\* ------------------------------------------------------------------- main
\* "if not othello_files: ... return"
Main_NoFiles ==
  /\ pc = "main"
  /\ files = <<>>
  /\ pc' = "exit"
  /\ UNCHANGED <<mainVars, disk, unlinked, k, exc, gameVars, edaxVars, bi, cards>>

\* The for loop over othello_files is exhausted.
Main_Done ==
  /\ pc = "main"
  /\ files # <<>>
  /\ k > Len(files)
  /\ pc' = "exit"
  /\ UNCHANGED <<mainVars, disk, unlinked, k, exc, gameVars, edaxVars, bi, cards>>

\* process_one_game(file_path) on a file with no move: "return" before any analysis.
ProcessOneGame_NoMoves ==
  /\ pc = "main"
  /\ k <= Len(files)
  /\ FindMoves(files[k]) = <<>>
  /\ k' = k + 1
  /\ cards' = <<>>
  /\ UNCHANGED <<mainVars, disk, unlinked, pc, exc, gameVars, edaxVars, bi>>

\* process_one_game(file_path) up to the first run_edax call of analyze_game.
ProcessOneGame_Analyze ==
  /\ pc = "main"
  /\ k <= Len(files)
  /\ FindMoves(files[k]) # <<>>
  /\ moves' = FindMoves(files[k])
  /\ rows' = <<>>
  /\ color' = "B"
  /\ i' = 0
  /\ phase' = "before"
  /\ play_command' = play_cmd_before(moves', 0)
  /\ ncalls' = 0
  /\ cards' = <<>>
  /\ bi' = 1
  /\ pc' = "popen"
  /\ UNCHANGED <<mainVars, disk, unlinked, k, exc, blunders, best_move_before,
                 eval_best_move, proc, stdin, stdout>>

\* --------------------------------------------------------------- run_edax
\* subprocess.Popen(...) starts the evaluator.
Popen_Started ==
  /\ pc = "popen"
  /\ proc' = "running"
  /\ ncalls' = ncalls + 1
  /\ pc' = "communicate"
  /\ UNCHANGED <<mainVars, disk, unlinked, k, exc, gameVars, play_command, stdin,
                 stdout, bi, cards>>

\* subprocess.Popen(...) raises: nothing catches it up to the top of main.
Popen_Raises ==
  /\ pc = "popen"
  /\ exc' = "Popen"
  /\ pc' = "crashed"
  /\ UNCHANGED <<mainVars, disk, unlinked, k, gameVars, edaxVars, bi, cards>>

\* proc.communicate(script) returns: the process read the script, printed and exited.
Communicate_Returns ==
  /\ pc = "communicate"
  /\ stdin' = Script(play_command)
  /\ stdout' = EdaxReply(edax, phase, i + 1)
  /\ proc' = "exited"
  /\ pc' = "kill"
  /\ UNCHANGED <<mainVars, disk, unlinked, k, exc, gameVars, play_command, ncalls,
                 bi, cards>>

\* proc.communicate(script) raises (an interrupt, an undecodable byte, an OS error):
\* proc.kill() is not reached and the process may still be running.
Communicate_Raises ==
  /\ pc = "communicate"
  /\ stdin' = Script(play_command)
  /\ proc' \in {"running", "exited"}
  /\ exc' = "communicate"
  /\ pc' = "crashed"
  /\ UNCHANGED <<mainVars, disk, unlinked, k, gameVars, play_command, stdout, ncalls,
                 bi, cards>>

\* proc.kill() in its try/except: a no-op on a process that has exited.
Killed(p) == IF p = "running" THEN "killed" ELSE p

\* The rest of run_edax for the before-position and analyze_game up to the second
\* run_edax call of the ply.
Return_Before ==
  /\ pc = "kill"
  /\ phase = "before"
  /\ proc' = Killed(proc)
  /\ LET parsed == parse_hint_output(stdout)
     IN  /\ best_move_before' = parsed.best_move
         /\ eval_best_move' = ScoreOrZero(parsed.score)
  /\ phase' = "after"
  /\ play_command' = play_cmd_after(moves, i)
  /\ pc' = "popen"
  /\ UNCHANGED <<mainVars, disk, unlinked, k, exc, moves, i, color, rows, blunders,
                 stdin, stdout, ncalls, bi, cards>>

\* The row analyze_game appends for ply ii + 1.
Row(mv, ii, col, bmb, ebm, parsedAfter) ==
  [index |-> ii + 1,
   color |-> col,
   played |-> mv[ii + 1],
   eval_best_move |-> ebm,
   best_move_before |-> MoveOrDash(bmb),
   eval_after_reply |-> ScoreOrZero(parsedAfter.score),
   best_reply_after_actual |-> MoveOrDash(parsedAfter.best_move),
   delta |-> Delta(ebm, ScoreOrZero(parsedAfter.score))]

\* The for loop of analyze_game goes on after iteration ii.
LoopContinues(mv, ii) == ii + 1 < Len(mv) /\ ii + 1 < PLY_LIMIT

\* The rest of run_edax for the after-position, the row, the color flip, and the next
\* iteration up to its first run_edax call.
Return_After_NextPly ==
  /\ pc = "kill"
  /\ phase = "after"
  /\ LoopContinues(moves, i)
  /\ proc' = Killed(proc)
  /\ rows' = Append(rows, Row(moves, i, color, best_move_before, eval_best_move,
                              parse_hint_output(stdout)))
  /\ color' = FlipColor(color)
  /\ i' = i + 1
  /\ phase' = "before"
  /\ play_command' = play_cmd_before(moves, i + 1)
  /\ pc' = "popen"
  /\ UNCHANGED <<mainVars, disk, unlinked, k, exc, moves, blunders, best_move_before,
                 eval_best_move, stdin, stdout, ncalls, bi, cards>>

\* The same for the last analyzed ply: the loop ends, the blunders are selected and
\* analyze_game returns to process_one_game.
Return_After_LastPly ==
  /\ pc = "kill"
  /\ phase = "after"
  /\ ~LoopContinues(moves, i)
  /\ proc' = Killed(proc)
  /\ rows' = Append(rows, Row(moves, i, color, best_move_before, eval_best_move,
                              parse_hint_output(stdout)))
  /\ color' = FlipColor(color)
  /\ blunders' = SelectSeq(rows', IsBlunder)
  /\ bi' = 1
  /\ pc' = "cards"
  /\ UNCHANGED <<mainVars, disk, unlinked, k, exc, moves, i, phase, best_move_before,
                 eval_best_move, play_command, stdin, stdout, ncalls, cards>>

\* ------------------------------------------------------- process_one_game
\* "continue": the blunder has no engine-recommended move.
SkipBlunder ==
  /\ pc = "cards"
  /\ bi <= Len(blunders)
  /\ NoRecommendation(blunders[bi].best_move_before)
  /\ bi' = bi + 1
  /\ UNCHANGED <<mainVars, disk, unlinked, k, pc, exc, gameVars, edaxVars, cards>>

\* add_anki_card(seq_before_str, correct_move) and the sleep: the POST succeeds, is
\* refused or raises; each outcome is only printed and add_anki_card returns.
AddAnkiCard ==
  /\ pc = "cards"
  /\ bi <= Len(blunders)
  /\ ~NoRecommendation(blunders[bi].best_move_before)
  /\ \E post \in {"ok", "refused", "raised"} :
       cards' = Append(cards,
                  [Sequence |-> Join(seq_before_list(moves, blunders[bi].index), <<>>),
                   Solution |-> blunders[bi].best_move_before])
  /\ bi' = bi + 1
  /\ UNCHANGED <<mainVars, disk, unlinked, k, pc, exc, gameVars, edaxVars>>

\* Path(file_path).unlink() in its try/except, then back to main's loop: the call
\* removes the file, or raises and leaves it (caught and printed).
Unlink ==
  /\ pc = "cards"
  /\ bi > Len(blunders)
  /\ unlinked' = UnlinkCalls(unlinked, k, blunders)
  /\ \E removed \in BOOLEAN :
       disk' = IF removed /\ k \in unlinked' THEN disk \ {k} ELSE disk
  /\ k' = k + 1
  /\ pc' = "main"
  /\ moves' = <<>>
  /\ rows' = <<>>
  /\ blunders' = <<>>
  /\ UNCHANGED <<mainVars, exc, i, phase, color, best_move_before, eval_best_move,
                 edaxVars, bi, cards>>

Next ==
  \/ Main_NoFiles
  \/ Main_Done
  \/ ProcessOneGame_NoMoves
  \/ ProcessOneGame_Analyze
  \/ Popen_Started
  \/ Popen_Raises
  \/ Communicate_Returns
  \/ Communicate_Raises
  \/ Return_Before
  \/ Return_After_NextPly
  \/ Return_After_LastPly
  \/ SkipBlunder
  \/ AddAnkiCard
  \/ Unlink

Spec == Init /\ [][Next]_vars


\* ================================================================ claims
\* What the evaluator printed for the two positions of a ply, parsed.
ParsedBefore(ply) == parse_hint_output(EdaxReply(edax, "before", ply))
ParsedAfter(ply) == parse_hint_output(EdaxReply(edax, "after", ply))
Inconclusive(p) == p.best_move = None \/ p.score = None

Min(a, b) == IF a <= b THEN a ELSE b
AnalyzedPlies == Min(Len(moves), PLY_LIMIT)

\* C1: no row and no blunder exists for a ply whose before-position or after-position
\* output parses to no move or no score: such a ply is dropped, not scored.
C1_InconclusivePlyDropped ==
  /\ \A j \in 1..Len(rows) :
       ~Inconclusive(ParsedBefore(rows[j].index)) /\ ~Inconclusive(ParsedAfter(rows[j].index))
  /\ \A j \in 1..Len(blunders) :
       ~Inconclusive(ParsedBefore(blunders[j].index))
         /\ ~Inconclusive(ParsedAfter(blunders[j].index))

\* C2: a Popen that raises while one file is processed does not end the batch run: the
\* program never stops on that exception.
C2_PopenFailureLeavesBatchRunning == exc = "Popen" => pc # "crashed"

C4_DeltaIsSum ==
  /\ \A j \in 1..Len(rows) :
       /\ rows[j].eval_best_move \in Int
       /\ rows[j].eval_after_reply \in Int
       /\ rows[j].delta = rows[j].eval_best_move + rows[j].eval_after_reply
  /\ rows # <<>> =>
       LET r == rows[Len(rows)]
           pb == ParsedBefore(r.index).score
           pa == ParsedAfter(r.index).score
       IN  /\ r.eval_best_move = (IF pb = None THEN 0 ELSE pb[1])
           /\ r.eval_after_reply = (IF pa = None THEN 0 ELSE pa[1])

C4_Witness ==
  \E j \in 1..Len(rows) :
    /\ ParsedBefore(rows[j].index).score = None
    /\ rows[j].eval_after_reply = 0 - 1
    /\ rows[j].delta = 0 - 1
    /\ \E h \in 1..Len(rows) : rows[h].eval_best_move = 5 /\ rows[h].delta = 4

\* C5: the blunders are exactly the rows with delta >= EVAL_SWING_THRESHOLD, in ply
\* order, none merged or removed; so the rows that reach any higher threshold are
\* among them.
C5_BlundersAreRowsAtThreshold ==
  pc = "cards" =>
    /\ \A j \in 1..Len(rows) :
         (rows[j].delta >= EVAL_SWING_THRESHOLD)
           <=> (\E b \in 1..Len(blunders) : blunders[b] = rows[j])
    /\ \A b \in 1..Len(blunders) : \E j \in 1..Len(rows) : rows[j] = blunders[b]
    /\ \A b \in 1..Len(blunders) : \A c \in 1..Len(blunders) :
         b < c => blunders[b].index < blunders[c].index
    /\ Len(blunders) = Cardinality({j \in 1..Len(rows) : rows[j].delta >= EVAL_SWING_THRESHOLD})
    /\ \A t \in EVAL_SWING_THRESHOLD..(2 * EVAL_SWING_THRESHOLD) :
         {rows[j] : j \in {h \in 1..Len(rows) : rows[h].delta >= t}}
           \subseteq {blunders[b] : b \in 1..Len(blunders)}

C5_Witness ==
  /\ pc = "cards"
  /\ \E j \in 1..Len(rows) : rows[j].delta = EVAL_SWING_THRESHOLD
  /\ \E j \in 1..Len(rows) : rows[j].delta = EVAL_SWING_THRESHOLD - 1
  /\ \E b \in 1..Len(blunders) : \E c \in 1..Len(blunders) :
       blunders[c].index = blunders[b].index + 1

\* The rows a card is submitted for: the blunders with a recommended move.
HasCard(r) == r.delta >= EVAL_SWING_THRESHOLD /\ r.best_move_before # <<"-">>
CardRows == SelectSeq(rows, HasCard)

\* C6: the Sequence of the card of a blunder at ply idx is the uppercase moves
\* moves[0 .. idx-2] in order with nothing between them (empty for idx = 1), and its
\* Solution is the best move the evaluator gave for the before-position of that ply.
C6_CardFields ==
  pc = "cards" =>
    \A j \in 1..Len(cards) :
      /\ j <= Len(CardRows)
      /\ LET idx == CardRows[j].index
             sq == cards[j].Sequence
             pb == ParsedBefore(idx).best_move
         IN  /\ Len(sq) = 2 * (idx - 1)
             /\ \A m \in 1..(idx - 1) :
                  /\ sq[2 * m - 1] = moves[m][1]
                  /\ sq[2 * m] = moves[m][2]
                  /\ sq[2 * m - 1] \in Columns
                  /\ sq[2 * m] \in Rows18
             /\ pb # None
             /\ cards[j].Solution = pb[1]

C6_Witness ==
  /\ pc = "cards"
  /\ Len(cards) >= 3
  /\ cards[1].Sequence = <<>>
  /\ cards[3].Sequence = <<"C", "4", "C", "3">>
  /\ cards[3].Solution = <<"D", "3">>

\* C7: add_anki_card is called once, in ply order, for each blunder whose recommended
\* move is present and not "-", and for no other row; a skipped blunder does not keep
\* the later ones from being submitted.
C7_OneCardPerRecommendedBlunder ==
  pc = "cards" =>
    /\ Len(cards) <= Len(CardRows)
    /\ \A j \in 1..Len(cards) :
         /\ cards[j].Solution = CardRows[j].best_move_before
         /\ cards[j].Solution \notin {<<>>, <<"-">>}
         /\ Len(cards[j].Sequence) = 2 * (CardRows[j].index - 1)
    /\ Len(cards) = Cardinality({b \in 1..(bi - 1) : HasCard(blunders[b])})
    /\ bi > Len(blunders) => Len(cards) = Len(CardRows)

C7_Witness ==
  /\ pc = "cards"
  /\ bi > Len(blunders)
  /\ Len(blunders) >= 3
  /\ blunders[1].best_move_before = <<"-">>
  /\ blunders[2].best_move_before # <<"-">>
  /\ blunders[3].best_move_before = <<"-">>
  /\ Len(cards) = 1

\* C8: the row of ply p has color "B" when p is odd and "W" when p is even, whatever
\* the evaluator printed.
C8_ColorAlternates ==
  \A j \in 1..Len(rows) :
    rows[j].color = (IF rows[j].index % 2 = 1 THEN "B" ELSE "W")

C8_Witness ==
  /\ Len(rows) = PLY_LIMIT
  /\ rows[2].color = "W"
  /\ rows[PLY_LIMIT - 1].color = "B"
  /\ Inconclusive(ParsedBefore(1))
  /\ ~Inconclusive(ParsedBefore(2))

\* C9: once run_edax has been left, on any path, the process it started is not running.
C9_NoEvaluatorLeftRunning == pc \notin {"communicate", "kill"} => proc # "running"

\* The script "level 25\n" [+ "play m1 ... mL\n"] + "hint 1\n" read character by
\* character: it replays exactly the first L moves of mv.
ScriptReplays(s, mv, L) ==
  /\ Len(s) = 9 + (IF L = 0 THEN 0 ELSE 5 + 3 * L) + 7
  /\ SubSeq(s, 1, 9) = <<"l", "e", "v", "e", "l", " ", "2", "5", "\n">>
  /\ SubSeq(s, Len(s) - 6, Len(s)) = <<"h", "i", "n", "t", " ", "1", "\n">>
  /\ L > 0 =>
       /\ SubSeq(s, 10, 14) = <<"p", "l", "a", "y", " ">>
       /\ \A m \in 1..L :
            /\ s[14 + 3 * (m - 1) + 1] = mv[m][1]
            /\ s[14 + 3 * (m - 1) + 2] = mv[m][2]
            /\ s[14 + 3 * (m - 1) + 3] = (IF m < L THEN " " ELSE "\n")

\* C10: the c-th evaluator call of a game replays the first c \div 2 moves (the
\* before-prefix of ply (c+1) \div 2 for odd c, that prefix plus the played move for even
\* c); calls are made one at a time; the row of a ply is added after its two calls;
\* and the analysis ends after 2 * min(n, 16) calls with rows 1..min(n, 16).
C10_EvaluatorCallOrder ==
  /\ pc = "kill" => ScriptReplays(stdin, moves, ncalls \div 2)
  /\ pc = "popen" => proc # "running" /\ ncalls < 2 * AnalyzedPlies /\ Len(rows) = ncalls \div 2
  /\ pc \in {"communicate", "kill"} =>
       ncalls <= 2 * AnalyzedPlies /\ Len(rows) = (ncalls - 1) \div 2
  /\ pc = "cards" => ncalls = 2 * AnalyzedPlies /\ Len(rows) = AnalyzedPlies
  /\ \A j \in 1..Len(rows) : rows[j].index = j /\ rows[j].played = moves[j]

C10_Witness ==
  /\ pc = "cards"
  /\ Len(moves) = PLY_LIMIT + 1
  /\ Len(rows) = PLY_LIMIT
  /\ ncalls = 2 * PLY_LIMIT
  /\ ScriptReplays(stdin, moves, PLY_LIMIT)

====
